---- MODULE Spec2Model ----
(***************************************************************************)
(* Model of the chunking controller of src/text_tools.py:                  *)
(*   count_words, split_text_by_words, process_large_text and              *)
(*   _remove_chunk_from_text.                                              *)
(*                                                                         *)
(* A text is a sequence of one-character strings.  The alphabet has two    *)
(* word characters ("a", "b"), the sentence terminator ".", and the two    *)
(* whitespace characters " " and "\n".                                     *)
(***************************************************************************)
EXTENDS Integers, Sequences, FiniteSets, TLC

VARIABLES
    pc,              \* position of the running call
    text,            \* the argument `text` of the running call (never assigned)
    chunk_size,      \* the argument chunk_size / target_words
    remaining_text,  \* process_large_text: remaining_text
    working_chunk,   \* process_large_text: working_chunk
    all_chunks,      \* process_large_text: all_chunks
    iteration,       \* process_large_text: iteration
    semantic_result, \* process_large_text: semantic_result (last Segmenter answer)
    seg_kinds,       \* kinds of the Segmenter answers received so far
    keep_output      \* FALSE: all_chunks (write-only in the code) is not recorded

\* The request handlers of app.py and what they call in ai_services.py and
\* vector_database.py
VARIABLES
    handler,         \* the running handler of app.py and where it stands
    limit,           \* search_chunks: limit
    chunks,          \* save_chunks_to_database: chunks
    adapter,         \* the running call of an adapter of ai_services.py
    chunk_i,         \* save_chunks_to_database: i, 0-based
    points,          \* save_chunks_to_database: points
    embedded,        \* the i for which get_text_embedding returned a vector
    sparse_vectors,  \* the collection is configured with sparse vectors
    index_log,       \* the calls made to the Index and the sparse path, in order
    stored,          \* the points the Index holds after the upsert
    document_id,     \* what save_chunks_to_database returned
    search_out,      \* what search_similar_chunks returned
    response         \* what the handler answered

svcvars == <<handler, limit, chunks, adapter, chunk_i, points, embedded,
             sparse_vectors, index_log, stored, document_id, search_out, response>>

ctlvars == <<pc, text, chunk_size, remaining_text, working_chunk, all_chunks,
             iteration, semantic_result, seg_kinds, keep_output>>

vars == <<ctlvars, svcvars>>

-----------------------------------------------------------------------------
(* Bounds of the model *)

MaxDocUnits == 5      \* a document of process_large_text has at most this many units
MaxTextUnits == 6     \* a text given to split_text_by_words alone
MaxChunkSize == 3     \* chunk_size / target_words range over 1..MaxChunkSize
MaxEchoChunks == 2    \* a verbatim Segmenter answer has at most this many chunks
MaxWindowUnits == 4   \* a window given to the chunk removal alone
MaxTermUnits == 3     \* a document of the unrecorded run has at most this many units
MaxChunks == 4        \* the Segmenter is not asked again once all_chunks is this long
MaxDocWords == 6      \* a document of whole words has at most this many words
MaxLongChunkSize == 6 \* chunk_size ranges over 1..MaxLongChunkSize on those documents

(* Program constants, scaled down so that bounded documents reach both sides *)
(* of each threshold: constants.py has MIN_CHUNK_REFILL_SIZE = 3500 and the  *)
(* literal 10 guards the tiny-chunk paths of process_large_text.             *)
(* MAX_SAFE_GEMINI_WORDS = 7000 is above every window a refill can build     *)
(* (2 * 3500 - 1 words) and is kept so: 2 * 3 - 1.                           *)
MIN_CHUNK_REFILL_SIZE == 3
TINY_WORDS == 2
MAX_SAFE_GEMINI_WORDS == 5

-----------------------------------------------------------------------------
(* Characters and Python string primitives *)

NL == "\n"

\* the alphabet
Chars == {"a", "b", ".", " ", NL}

\* \w of the regular expressions
WordChars == {"a", "b"}

\* \s of the regular expressions, and the characters str.strip()/str.split() drop
SpaceChars == {" ", NL}

IsWordChar(c) == c \in WordChars

IsSpace(c) == c \in SpaceChars

\* [.!?]
IsSentenceEnd(c) == c = "."

\* t[i:] of Python with a 0-based i, i.e. t without its first i characters
Drop(t, i) == IF i >= Len(t) THEN <<>> ELSE SubSeq(t, i + 1, Len(t))

RECURSIVE LStripSet(_, _)
\* str.lstrip(chars)
LStripSet(t, chars) ==
    IF t # <<>> /\ Head(t) \in chars THEN LStripSet(Tail(t), chars) ELSE t

RECURSIVE RStrip(_)
\* str.rstrip()
RStrip(t) ==
    IF t # <<>> /\ IsSpace(t[Len(t)]) THEN RStrip(SubSeq(t, 1, Len(t) - 1)) ELSE t

\* str.strip()
Strip(t) == RStrip(LStripSet(t, {" ", NL}))

\* `not s.strip()`
IsBlank(t) == Strip(t) = <<>>

RECURSIVE Join(_, _)
\* sep.join(parts)
Join(parts, sep) ==
    IF parts = <<>> THEN <<>>
    ELSE IF Len(parts) = 1 THEN parts[1]
    ELSE parts[1] \o sep \o Join(Tail(parts), sep)

RECURSIVE RunLen(_, _, _)
\* length of the maximal run of characters of the class S that starts at t[i]
RunLen(t, i, S) ==
    IF i <= Len(t) /\ t[i] \in S THEN 1 + RunLen(t, i + 1, S) ELSE 0

RECURSIVE FindAllFrom(_, _)
FindAllFrom(t, i) ==
    IF i > Len(t) THEN <<>>
    ELSE IF IsWordChar(t[i])
         THEN LET n == RunLen(t, i, WordChars)
              IN  <<SubSeq(t, i, i + n - 1)>> \o FindAllFrom(t, i + n)
         ELSE FindAllFrom(t, i + 1)

\* re.findall(r'\b\w+\b', text): the maximal runs of word characters
FindAllWords(t) == FindAllFrom(t, 1)

RECURSIVE SplitWsFrom(_, _)
SplitWsFrom(t, i) ==
    IF i > Len(t) THEN <<>>
    ELSE IF IsSpace(t[i]) THEN SplitWsFrom(t, i + 1)
    ELSE LET n == RunLen(t, i, Chars \ SpaceChars)
         IN  <<SubSeq(t, i, i + n - 1)>> \o SplitWsFrom(t, i + n)

\* str.split(): the maximal runs of non-whitespace characters
SplitWhitespace(t) == SplitWsFrom(t, 1)

RECURSIVE SplitParagraphs(_)
\* text.split('\n\n'): non-overlapping separators, found left to right
SplitParagraphs(t) ==
    LET hits == {i \in 1..(Len(t) - 1) : t[i] = NL /\ t[i + 1] = NL}
    IN  IF hits = {} THEN <<t>>
        ELSE LET i == CHOOSE h \in hits : \A g \in hits : h <= g
             IN  <<SubSeq(t, 1, i - 1)>> \o SplitParagraphs(Drop(t, i + 1))

RECURSIVE SplitSentences(_)
\* re.split(r'(?<=[.!?])\s+', paragraph)
SplitSentences(p) ==
    LET hits == {i \in 2..Len(p) : IsSentenceEnd(p[i - 1]) /\ IsSpace(p[i])}
    IN  IF hits = {} THEN <<p>>
        ELSE LET i == CHOOSE h \in hits : \A g \in hits : h <= g
                 n == RunLen(p, i, SpaceChars)
             IN  <<SubSeq(p, 1, i - 1)>> \o SplitSentences(Drop(p, i + n - 1))

-----------------------------------------------------------------------------
(* text_tools.py *)

count_words(t) == Len(FindAllWords(t))

RECURSIVE TakeSentences(_, _, _, _, _)
\* the loop over sentences: returns extracted_parts
TakeSentences(sentences, j, parts, current_words, target_words) ==
    IF j > Len(sentences) THEN parts
    ELSE LET sentence_words == count_words(sentences[j])
         IN  IF current_words + sentence_words <= target_words
             THEN TakeSentences(sentences, j + 1, Append(parts, sentences[j]),
                                current_words + sentence_words, target_words)
             ELSE parts

RECURSIVE TakeParagraphsUnadded(_, _, _, _, _)
\* the loop over paragraphs with the budget test made on current_words alone
TakeParagraphsUnadded(paragraphs, i, parts, current_words, target_words) ==
    IF i > Len(paragraphs) THEN parts
    ELSE LET paragraph_words == count_words(paragraphs[i])
         IN  IF current_words <= target_words
             THEN TakeParagraphsUnadded(paragraphs, i + 1, Append(parts, paragraphs[i]),
                                        current_words + paragraph_words, target_words)
             ELSE parts

RECURSIVE TakeParagraphsNoThreshold(_, _, _, _, _)
\* the loop over paragraphs with the sentences tried at every overflow
TakeParagraphsNoThreshold(paragraphs, i, parts, current_words, target_words) ==
    IF i > Len(paragraphs) THEN parts
    ELSE LET paragraph_words == count_words(paragraphs[i])
         IN  IF current_words + paragraph_words <= target_words
             THEN TakeParagraphsNoThreshold(paragraphs, i + 1, Append(parts, paragraphs[i]),
                                            current_words + paragraph_words, target_words)
             ELSE TakeSentences(SplitSentences(paragraphs[i]), 1, parts,
                                current_words, target_words)

RECURSIVE TakeParagraphs(_, _, _, _, _)
\* the loop over paragraphs: returns extracted_parts
TakeParagraphs(paragraphs, i, parts, current_words, target_words) ==
    IF i > Len(paragraphs) THEN parts
    ELSE LET paragraph_words == count_words(paragraphs[i])
         IN  IF current_words + paragraph_words <= target_words
             THEN TakeParagraphs(paragraphs, i + 1, Append(parts, paragraphs[i]),
                                 current_words + paragraph_words, target_words)
             ELSE IF 5 * current_words < 4 * target_words   \* < target_words * 0.8
                  THEN TakeSentences(SplitSentences(paragraphs[i]), 1, parts,
                                     current_words, target_words)
                  ELSE parts

\* extracted_parts of split_text_by_words when the text is over the target
extracted_parts(t, target_words) ==
    TakeParagraphs(SplitParagraphs(t), 1, <<>>, 0, target_words)

\* split_text_by_words with the extracted prefix left in the remainder
SplitLeavesText(t, target_words) ==
    IF count_words(t) <= target_words THEN <<t, t>>
    ELSE <<Join(extracted_parts(t, target_words), <<NL, NL>>), t>>

\* split_text_by_words(text, target_words) = <<extracted_text, remaining_text>>
split_text_by_words(t, target_words) ==
    IF count_words(t) <= target_words THEN <<t, <<>>>>
    ELSE LET extracted_text == Join(extracted_parts(t, target_words), <<NL, NL>>)
         IN  IF extracted_text # <<>>
             THEN <<extracted_text,
                    LStripSet(Drop(t, Len(extracted_text)), {NL, " "})>>
             ELSE <<extracted_text, t>>

\* _remove_chunk_from_text(current_chunk, chunk_content)
remove_chunk_from_text(current_chunk, chunk_content) ==
    LET chunk_words == count_words(chunk_content)
        current_words == SplitWhitespace(current_chunk)
    IN  IF Len(current_words) > chunk_words
        THEN Join(SubSeq(current_words, chunk_words + 1, Len(current_words)), <<" ">>)
        ELSE <<>>

RECURSIVE RemoveProcessed(_, _)
\* process_large_text, "Remove all processed chunks from working text":
\* remaining_working_text after the loop over chunks_received
RemoveProcessed(remaining_working_text, chunks_received) ==
    IF chunks_received = <<>> THEN remaining_working_text
    ELSE RemoveProcessed(
             remove_chunk_from_text(remaining_working_text, chunks_received[1].content),
             Tail(chunks_received))

-----------------------------------------------------------------------------
(* Inputs: documents and Segmenter answers *)

RECURSIVE UnitTexts(_, _)
\* the texts made of at most n of the given units
UnitTexts(units, n) ==
    IF n = 0 THEN {<<>>}
    ELSE LET S == UnitTexts(units, n - 1)
         IN  S \cup {s \o u : s \in S, u \in units}

DocUnits == {<<"a">>, <<"b">>, <<".">>, <<" ">>, <<NL, NL>>}

Docs == UnitTexts(DocUnits, MaxDocUnits)

\* a chunk as the Segmenter returns it; keywords and summary are never read
SegChunk(c) == [heading |-> "AI", content |-> c]

\* a chunk of a malformed answer: the content field is missing
NoContentChunk == [heading |-> "AI"]

HasContent(chunk) == "content" \in DOMAIN chunk

\* a chunk the controller builds itself
OwnChunk(h, c) == [heading |-> h, content |-> c]

\* where a verbatim answer may end a chunk: anywhere but inside a word
CutPoints(w) ==
    {k \in 1..Len(w) : k = Len(w) \/ ~(IsWordChar(w[k]) /\ IsWordChar(w[k + 1]))}

RECURSIVE Pieces(_, _)
\* the ways to cut w into at most n contiguous non-empty pieces
Pieces(w, n) ==
    IF w = <<>> THEN {<<>>}
    ELSE IF n = 0 THEN {}
    ELSE UNION {{<<SegChunk(SubSeq(w, 1, k))>> \o rest : rest \in Pieces(Drop(w, k), n - 1)}
                : k \in CutPoints(w)}

\* contents a Segmenter may return that are not a verbatim partition of the window
OtherContents == {<<>>, <<".">>, <<"a">>}

NoResult == [kind |-> "none", chunks |-> <<>>]

\* the answers of break_text_into_chunks for a window, as process_large_text
\* reads them: an "error" key, no/empty "chunks", or a list of chunks
SegResponses(w) ==
    {[kind |-> "error", chunks |-> <<>>], [kind |-> "empty", chunks |-> <<>>]}
    \cup {[kind |-> "echo", chunks |-> cs] : cs \in Pieces(w, MaxEchoChunks)}
    \cup {[kind |-> "other", chunks |-> <<SegChunk(c)>>] : c \in OtherContents}
    \cup {[kind |-> "malformed", chunks |-> cs \o <<NoContentChunk>>]
          : cs \in {<<>>, <<SegChunk(w)>>}}

-----------------------------------------------------------------------------
(* process_large_text *)

\* all_chunks.append for each of cs (not recorded when keep_output is off)
Emit(cs) == IF keep_output THEN all_chunks \o cs ELSE all_chunks

working_words == count_words(working_chunk)

\* the refill test of the inner loop
NeedsRefill == working_words < MIN_CHUNK_REFILL_SIZE /\ ~IsBlank(remaining_text)

\* a refill that takes all of the remaining text
RefillTakesAll == <<remaining_text, <<>>>>

\* refill_text, remaining_text of the refill
RefillSplit == split_text_by_words(remaining_text, MIN_CHUNK_REFILL_SIZE)

\* the refill is made and the inner loop continues
RefillHappens == NeedsRefill /\ ~IsBlank(RefillSplit[1])

\* remaining_text when the inner iteration goes on past the refill test
RemainingPastRefill == IF NeedsRefill THEN RefillSplit[2] ELSE remaining_text

\* the inner iteration reaches the tiny test
PastRefill == pc = "inner" /\ ~IsBlank(working_chunk) /\ ~RefillHappens

\* an inner iteration that goes to the Segmenter without the tiny test
AtSegmenterUntested == pc = "inner" /\ ~IsBlank(working_chunk) /\ ~RefillHappens

\* the inner iteration reaches the Segmenter call
AtSegmenter == PastRefill /\ working_words >= TINY_WORDS

\* all_chunks grows without limit when the Segmenter never consumes the window:
\* the recorded output is capped
BelowCap == Len(all_chunks) < MaxChunks

\* no adapter call is running
NoCall == [fn |-> "none", attempt |-> 0, outcomes |-> <<>>, ret |-> "none"]

\* no search has returned
NoSearch == [results |-> <<>>, search_method |-> "none"]

\* no handler has answered
NoResponse == [status |-> 0]

\* no handler of app.py is running
SvcIdle ==
    /\ handler = [name |-> "none", at |-> "idle"]
    /\ limit = 0
    /\ chunks = <<>>
    /\ adapter = NoCall
    /\ chunk_i = 0
    /\ points = <<>>
    /\ embedded = {}
    /\ sparse_vectors = FALSE
    /\ index_log = <<>>
    /\ stored = <<>>
    /\ document_id = "none"
    /\ search_out = NoSearch
    /\ response = NoResponse

Init ==
    /\ pc = "outer"
    /\ text \in Docs
    /\ chunk_size \in 1..MaxChunkSize
    /\ remaining_text = text
    /\ working_chunk = <<>>
    /\ all_chunks = <<>>
    /\ iteration = 1
    /\ semantic_result = NoResult
    /\ seg_kinds = {}
    /\ keep_output = TRUE
    /\ SvcIdle

\* outer loop: a non-blank working chunk is split off the remaining text
Windowing ==
    /\ pc = "outer"
    /\ ~IsBlank(remaining_text)
    /\ LET s == split_text_by_words(remaining_text, chunk_size)
       IN  /\ ~IsBlank(s[1])
           /\ working_chunk' = s[1]
           /\ remaining_text' = s[2]
    /\ pc' = "inner"
    /\ UNCHANGED <<text, chunk_size, all_chunks, iteration, semantic_result,
                   seg_kinds, keep_output, svcvars>>

\* outer loop: the split gives a blank working chunk, `break`
WindowBlank ==
    /\ pc = "outer"
    /\ ~IsBlank(remaining_text)
    /\ LET s == split_text_by_words(remaining_text, chunk_size)
       IN  /\ IsBlank(s[1])
           /\ working_chunk' = s[1]
           /\ remaining_text' = s[2]
    /\ pc' = "done"
    /\ UNCHANGED <<text, chunk_size, all_chunks, iteration, semantic_result,
                   seg_kinds, keep_output, svcvars>>

\* outer loop condition false: return {"chunks": all_chunks}
OuterExit ==
    /\ pc = "outer"
    /\ IsBlank(remaining_text)
    /\ pc' = "done"
    /\ UNCHANGED <<text, chunk_size, remaining_text, working_chunk, all_chunks,
                   iteration, semantic_result, seg_kinds, keep_output, svcvars>>

\* inner loop condition false
InnerExit ==
    /\ pc = "inner"
    /\ IsBlank(working_chunk)
    /\ iteration' = iteration + 1
    /\ pc' = "outer"
    /\ UNCHANGED <<text, chunk_size, remaining_text, working_chunk, all_chunks,
                   semantic_result, seg_kinds, keep_output, svcvars>>

\* inner loop: refill from the remaining text, `continue`
Refill ==
    /\ pc = "inner"
    /\ ~IsBlank(working_chunk)
    /\ RefillHappens
    /\ working_chunk' = Strip(working_chunk \o <<NL, NL>> \o RefillSplit[1])
    /\ remaining_text' = RefillSplit[2]
    /\ UNCHANGED <<pc, text, chunk_size, all_chunks, iteration, semantic_result,
                   seg_kinds, keep_output, svcvars>>

\* inner loop: fewer than 10 words, saved directly, `break`
TinyChunk ==
    /\ PastRefill
    /\ working_words < TINY_WORDS
    /\ all_chunks' = Emit(<<OwnChunk("Content", Strip(working_chunk))>>)
    /\ remaining_text' = RemainingPastRefill
    /\ iteration' = iteration + 1
    /\ pc' = "outer"
    /\ UNCHANGED <<text, chunk_size, working_chunk, semantic_result, seg_kinds,
                   keep_output, svcvars>>

\* the Segmenter answers with an "error" key: the window is saved whole, `break`
SegError ==
    /\ AtSegmenter
    /\ \E r \in SegResponses(working_chunk) :
          /\ r.kind = "error"
          /\ semantic_result' = r
          /\ seg_kinds' = seg_kinds \cup {r.kind}
    /\ all_chunks' = Emit(<<OwnChunk("Processing Error", working_chunk)>>)
    /\ remaining_text' = RemainingPastRefill
    /\ iteration' = iteration + 1
    /\ pc' = "outer"
    /\ UNCHANGED <<text, chunk_size, working_chunk, keep_output, svcvars>>

\* the Segmenter answers without chunks: the window is saved whole, `break`
SegEmpty ==
    /\ AtSegmenter
    /\ \E r \in SegResponses(working_chunk) :
          /\ r.kind = "empty"
          /\ semantic_result' = r
          /\ seg_kinds' = seg_kinds \cup {r.kind}
    /\ all_chunks' = Emit(<<OwnChunk("Unprocessed Content", working_chunk)>>)
    /\ remaining_text' = RemainingPastRefill
    /\ iteration' = iteration + 1
    /\ pc' = "outer"
    /\ UNCHANGED <<text, chunk_size, working_chunk, keep_output, svcvars>>

\* the Segmenter answers with chunks: all are taken and removed from the window
SegChunks ==
    /\ AtSegmenter
    /\ BelowCap
    /\ \E r \in SegResponses(working_chunk) :
          /\ r.chunks # <<>>
          /\ \A i \in 1..Len(r.chunks) : HasContent(r.chunks[i])
          /\ semantic_result' = r
          /\ seg_kinds' = seg_kinds \cup {r.kind}
          /\ LET rest == RemoveProcessed(working_chunk, r.chunks)
                 remaining_working_words ==
                     IF ~IsBlank(rest) THEN count_words(rest) ELSE 0
             IN  IF 0 < remaining_working_words /\ remaining_working_words < TINY_WORDS
                 THEN /\ all_chunks' =
                            Emit(r.chunks \o <<OwnChunk("Additional Content", Strip(rest))>>)
                      /\ working_chunk' = <<>>
                 ELSE /\ all_chunks' = Emit(r.chunks)
                      /\ working_chunk' = rest
    /\ remaining_text' = RemainingPastRefill
    /\ UNCHANGED <<pc, text, chunk_size, iteration, keep_output, svcvars>>

\* a chunk without content: chunk['content'] raises after the chunks were
\* appended; the handler saves the window whole, `break`
SegMalformed ==
    /\ AtSegmenter
    /\ \E r \in SegResponses(working_chunk) :
          /\ \E i \in 1..Len(r.chunks) : ~HasContent(r.chunks[i])
          /\ semantic_result' = r
          /\ seg_kinds' = seg_kinds \cup {r.kind}
          /\ all_chunks' =
                Emit(r.chunks \o <<OwnChunk("Processing Error", working_chunk)>>)
    /\ remaining_text' = RemainingPastRefill
    /\ iteration' = iteration + 1
    /\ pc' = "outer"
    /\ UNCHANGED <<text, chunk_size, working_chunk, keep_output, svcvars>>

Next ==
    \/ Windowing
    \/ WindowBlank
    \/ OuterExit
    \/ InnerExit
    \/ Refill
    \/ TinyChunk
    \/ SegError
    \/ SegEmpty
    \/ SegChunks
    \/ SegMalformed

Spec == Init /\ [][Next]_vars

-----------------------------------------------------------------------------
(* The same run without recording the output.  process_large_text only      *)
(* appends to all_chunks and never reads it, so its control flow is the     *)
(* same; the loops keep running as long as the interpreter runs them.       *)

TermDocs == UnitTexts(DocUnits, MaxTermUnits)

InitTerm ==
    /\ pc = "outer"
    /\ text \in TermDocs
    /\ chunk_size \in 1..MaxChunkSize
    /\ remaining_text = text
    /\ working_chunk = <<>>
    /\ all_chunks = <<>>
    /\ iteration = 1
    /\ semantic_result = NoResult
    /\ seg_kinds = {}
    /\ keep_output = FALSE
    /\ SvcIdle

TermSpec == InitTerm /\ [][Next]_vars /\ WF_vars(Next)

-----------------------------------------------------------------------------
(* split_text_by_words alone: one call on a bounded text and target *)

TextUnits == {<<"a">>, <<"b">>, <<" ">>, <<".", " ">>, <<NL, NL>>}

Texts == UnitTexts(TextUnits, MaxTextUnits)

InitSplit ==
    /\ pc = "split"
    /\ text \in Texts
    /\ chunk_size \in 1..MaxChunkSize
    /\ remaining_text = <<>>
    /\ working_chunk = <<>>
    /\ all_chunks = <<>>
    /\ iteration = 1
    /\ semantic_result = NoResult
    /\ seg_kinds = {}
    /\ keep_output = TRUE
    /\ SvcIdle

\* extracted, remaining = split_text_by_words(text, chunk_size)
SplitCall ==
    /\ pc = "split"
    /\ working_chunk' = split_text_by_words(text, chunk_size)[1]
    /\ remaining_text' = split_text_by_words(text, chunk_size)[2]
    /\ pc' = "split_done"
    /\ UNCHANGED <<text, chunk_size, all_chunks, iteration, semantic_result,
                   seg_kinds, keep_output, svcvars>>

SplitSpec == InitSplit /\ [][SplitCall]_vars

-----------------------------------------------------------------------------
(* The removal of the received chunks alone: one pass of the loop over      *)
(* chunks_received on a bounded window                                      *)

WindowUnits == {<<"a">>, <<"b">>, <<".">>, <<" ">>}

Windows == UnitTexts(WindowUnits, MaxWindowUnits)

\* the contiguous substrings of w
Substrings(w) ==
    {<<>>} \cup {SubSeq(w, i, j) : i \in 1..Len(w), j \in 1..Len(w)}

\* the chunk lists a Segmenter may return for the window w
ChunkLists(w) ==
    LET contents == Substrings(w) \cup OtherContents
    IN  {<<SegChunk(c)>> : c \in contents}
        \cup {<<SegChunk(c), SegChunk(d)>> : c \in OtherContents, d \in contents}

InitRemove ==
    /\ pc = "remove"
    /\ text \in Windows
    /\ chunk_size = 1
    /\ remaining_text = <<>>
    /\ working_chunk = text
    /\ all_chunks = <<>>
    /\ iteration = 1
    /\ semantic_result \in {[kind |-> "chunks", chunks |-> cs] : cs \in ChunkLists(text)}
    /\ seg_kinds = {}
    /\ keep_output = TRUE
    /\ SvcIdle

\* working_chunk = the window with every received chunk removed
RemoveCall ==
    /\ pc = "remove"
    /\ working_chunk' = RemoveProcessed(working_chunk, semantic_result.chunks)
    /\ pc' = "remove_done"
    /\ UNCHANGED <<text, chunk_size, remaining_text, all_chunks, iteration,
                   semantic_result, seg_kinds, keep_output, svcvars>>

RemoveSpec == InitRemove /\ [][RemoveCall]_vars

-----------------------------------------------------------------------------
(* Properties *)

\* the contents of the emitted chunks, in order, one space between two chunks
OutputText ==
    Join([i \in 1..Len(all_chunks) |-> all_chunks[i].content], <<" ">>)

\* t = p followed by whitespace only followed by r
SplitsInto(t, p, r) ==
    /\ Len(p) + Len(r) <= Len(t)
    /\ SubSeq(t, 1, Len(p)) = p
    /\ SubSeq(t, Len(t) - Len(r) + 1, Len(t)) = r
    /\ \A i \in (Len(p) + 1)..(Len(t) - Len(r)) : IsSpace(t[i])

\* C1: no data loss.  When process_large_text has returned and every
\* Segmenter answer was an error, an empty result or a verbatim partition of
\* the window, the words of the emitted contents, in order, are the words of
\* the document.
C1_NoDataLoss ==
    (pc = "done" /\ seg_kinds \subseteq {"echo", "error", "empty"})
        => FindAllWords(OutputText) = FindAllWords(text)

\* C2: fallback completeness.  When process_large_text has returned and every
\* Segmenter call returned an error, the emitted contents cover the words of
\* the whole document and there is exactly one chunk per working window.
C2_FallbackCompleteness ==
    (pc = "done" /\ seg_kinds \subseteq {"error"})
        => /\ FindAllWords(OutputText) = FindAllWords(text)
           /\ Len(all_chunks) = iteration - 1

\* C3: process_large_text returns only when the remainder is exhausted: at
\* the return no non-blank text is left in remaining_text.
C3_TerminalOnlyWhenExhausted ==
    pc = "done" => IsBlank(remaining_text)

\* C4: termination.  Whatever the Segmenter answers, process_large_text
\* eventually returns.
C4_Termination == <>(pc = "done")

\* C5: character conservation of split_text_by_words.  The returned prefix is
\* a contiguous prefix of the text, and the text is the prefix, then trimmed
\* whitespace, then the returned remainder.
C5_CharacterConservation ==
    pc = "split_done" => SplitsInto(text, working_chunk, remaining_text)

\* the first sentence of the first paragraph of t
FirstSentence(t) == SplitSentences(SplitParagraphs(t)[1])[1]

\* C6: over-budget sentence.  When the text has more words than the target
\* and the first sentence of the first paragraph alone exceeds the target,
\* the returned prefix is not empty and starts with that whole sentence.
C6_OverBudgetSentenceWhole ==
    (/\ pc = "split_done"
     /\ count_words(text) > chunk_size
     /\ count_words(FirstSentence(text)) > chunk_size)
        => /\ working_chunk # <<>>
           /\ Len(working_chunk) >= Len(FirstSentence(text))
           /\ SubSeq(working_chunk, 1, Len(FirstSentence(text))) = FirstSentence(text)

\* the paragraphs of t and their sentences
UnitsOf(t) ==
    LET ps == SplitParagraphs(t)
    IN  {ps[i] : i \in 1..Len(ps)}
        \cup UNION {LET ss == SplitSentences(ps[i])
                    IN  {ss[j] : j \in 1..Len(ss)} : i \in 1..Len(ps)}

\* C7: size-budget respect.  The prefix returned by split_text_by_words has
\* at most target words, unless one paragraph or sentence alone exceeds the
\* target, and then it exceeds the target by at most the words of that unit.
C7_SizeBudget ==
    pc = "split_done"
        => \/ count_words(working_chunk) <= chunk_size
           \/ \E u \in UnitsOf(text) :
                 /\ count_words(u) > chunk_size
                 /\ count_words(working_chunk) <= chunk_size + count_words(u)

\* C7 witness: a text over the target was split and the prefix, built from
\* more than one unit, fills the target exactly.
C7_Witness ==
    /\ pc = "split_done"
    /\ count_words(text) > chunk_size
    /\ count_words(working_chunk) = chunk_size
    /\ Len(extracted_parts(text, chunk_size)) >= 2

\* the positions at which c occurs in w as a literal substring
Occurrences(w, c) ==
    {k \in 1..(Len(w) - Len(c) + 1) : SubSeq(w, k, k + Len(c) - 1) = c}

\* w with the occurrence of c at position k deleted
DeleteAt(w, k, c) == SubSeq(w, 1, k - 1) \o Drop(w, k + Len(c) - 1)

\* the characters of t that are not whitespace, in order
NonSpace(t) == SelectSeq(t, LAMBDA ch : ~IsSpace(ch))

\* C8: literal removal.  When the one received chunk has a non-empty content
\* that occurs literally in the window, the window afterwards is the window
\* with one occurrence of the content deleted and all other text kept
\* (whitespace aside), wherever the occurrence lies.
C8_LiteralRemoval ==
    (/\ pc = "remove_done"
     /\ Len(semantic_result.chunks) = 1
     /\ semantic_result.chunks[1].content # <<>>
     /\ Occurrences(text, semantic_result.chunks[1].content) # {})
        => \E k \in Occurrences(text, semantic_result.chunks[1].content) :
              NonSpace(working_chunk)
                  = NonSpace(DeleteAt(text, k, semantic_result.chunks[1].content))

\* C9: mismatch removal.  When the one received chunk has a content that
\* does not occur literally in the window, count_words of the window drops by
\* exactly count_words of the content, or to zero when the window has fewer
\* words.
C9_MismatchRemoval ==
    (/\ pc = "remove_done"
     /\ Len(semantic_result.chunks) = 1
     /\ Occurrences(text, semantic_result.chunks[1].content) = {})
        => count_words(working_chunk)
              = IF count_words(text) > count_words(semantic_result.chunks[1].content)
                THEN count_words(text) - count_words(semantic_result.chunks[1].content)
                ELSE 0

\* C10: a malformed Segmenter answer is handled like an error: the step
\* appends one fallback chunk holding the window and nothing else.
C10_MalformedLikeError ==
    [][(AtSegmenter /\ pc' = "outer" /\ semantic_result'.kind = "malformed")
          => all_chunks' = all_chunks \o <<OwnChunk("Processing Error", working_chunk)>>]_vars


\* the headings of the chunks process_large_text makes itself: the tiny
\* remainder, the unprocessed window, the error fallback and the remainder
OwnHeadings == {"Content", "Unprocessed Content", "Processing Error", "Additional Content"}

\* c occurs in w as a contiguous run of characters
IsSubstring(c, w) == c = <<>> \/ Occurrences(w, c) # {}

\* C11: the content of every chunk the controller itself produces (tiny,
\* remainder, unprocessed, error fallback) is an exact contiguous substring of
\* the source document, also after a refill or a removal of processed chunks.
C11_VerbatimContent ==
    \A k \in 1..Len(all_chunks) :
        all_chunks[k].heading \in OwnHeadings
            => IsSubstring(all_chunks[k].content, text)



\* ---------------------------------------------------------------------------
\* ai_services.py: the adapters and their retry loops
\* ---------------------------------------------------------------------------

\* max_retries of break_text_into_chunks, get_text_embedding and
\* get_search_embedding
max_retries == 2

\* What one attempt of break_text_into_chunks can meet: a response whose text
\* is a JSON object with a "chunks" key; a JSON list with the element "chunks"
\* or a JSON string holding the word, for which `"chunks" not in result` is
\* False as well; JSON whose value has no "chunks" in it; a JSON number, null
\* or boolean, on which the test raises TypeError; not JSON; or an exception
\* whose message holds one of the timeout keywords or none of them.
SegmenterOutcomes ==
    {"chunks", "chunks_member", "no_chunks_key", "not_container", "not_json",
     "timeout_message", "other_message"}

\* What one attempt of an embedding adapter can meet: status 200 with the
\* embedding in the body, status 200 with another body, another status, a
\* requests Timeout, or another exception.
EmbeddingOutcomes == {"ok", "bad_body", "bad_status", "Timeout", "exception"}

AttemptOutcomes(fn) ==
    IF fn = "break_text_into_chunks" THEN SegmenterOutcomes ELSE EmbeddingOutcomes

\* is_timeout of break_text_into_chunks, the except (Timeout, ReadTimeout)
\* clause of the embedding adapters
is_timeout(o) == o \in {"timeout_message", "Timeout"}

\* the attempt passed the tests of the adapter, which returns what it got
IsSuccess(o) == o \in {"chunks", "chunks_member", "ok"}

\* the error result of an adapter: the {"error": ...} text, or None
ErrorResult(fn) == IF fn = "break_text_into_chunks" THEN "error_json" ELSE "None"

\* the result of a successful attempt: response.text as it came (an object
\* with a "chunks" key, or the list or string that passed the test), or the
\* embedding
SuccessResult(fn, o) ==
    IF fn = "break_text_into_chunks"
    THEN (IF o = "chunks" THEN "chunks_json" ELSE "member_json")
    ELSE "vector"



\* a retry loop that sleeps and tries again after every failed attempt but the last
RetryEveryFailure(fn, attempt, o) ==
    IF IsSuccess(o) THEN SuccessResult(fn, o)
    ELSE IF attempt = max_retries - 1 THEN ErrorResult(fn) ELSE "retry"

\* One pass of the body of `for attempt in range(max_retries)`: what the call
\* returns, or "retry" when the body sleeps and the loop goes on.
attempt_result(fn, attempt, o) ==
    IF IsSuccess(o) THEN SuccessResult(fn, o)
    ELSE IF is_timeout(o)
         THEN IF attempt = max_retries - 1 THEN ErrorResult(fn) ELSE "retry"
         ELSE ErrorResult(fn)

\* the call of adapter fn begins: attempt 0, nothing met yet
StartCall(fn) == [fn |-> fn, attempt |-> 0, outcomes |-> <<>>, ret |-> "running"]

\* ---------------------------------------------------------------------------
\* vector_database.py
\* ---------------------------------------------------------------------------

MaxSaveChunks == 2    \* chunks in one call of save_chunks_to_database
MaxLimit == 7         \* limit of a search, 1..MaxLimit
MaxPoints == 2        \* points the Index can return from one query

\* the lists a handler passes to save_chunks_to_database: chunks with a
\* content and chunks without the key
SaveChunk == {SegChunk(<<"a">>), SegChunk(<<"b">>), NoContentChunk}
SaveInputs ==
    UNION {[1..n -> SaveChunk] : n \in 0..MaxSaveChunks}

\* uuid.uuid4() of save_chunks_to_database
NewDocumentId == "doc"

\* one call to the Index or to the sparse model, as the log keeps it
Entry(call, outcome) == [call |-> call, outcome |-> outcome]

\* _get_sparse_embedding: the Document, or None ("none") on any exception
SparseOutcomes == {"ok", "none"}

\* client.get_collection: the collection info, or an exception
CollectionOutcomes == {"ok", "raises"}

\* _has_sparse_support: the collection's sparse_vectors config is set; False
\* when get_collection raised
has_sparse_support(gc) == gc = "ok" /\ sparse_vectors

\* a PointStruct of save_chunks_to_database: the vector it carries and the
\* part of the payload that tells the chunks apart. The other payload fields
\* (heading, keywords, summary with their defaults, and token_count, whose
\* count_text_tokens is taken to return for every content) are left out.
Point(i, chunk, sparse, gc) ==
    [chunk_index |-> i,
     content     |-> chunk.content,
     vector      |-> IF sparse = "ok" /\ has_sparse_support(gc)
                     THEN "dense+sparse" ELSE "dense"]

\* a loop body that builds the point whatever get_text_embedding returned
PointsAlways(pts, i, chunk, dense_embedding, sparse, gc) ==
    Append(pts, Point(i, chunk, sparse, gc))

\* a loop body that numbers the points by their place among the points
PointsRenumbered(pts, i, chunk, dense_embedding, sparse, gc) ==
    IF dense_embedding = "None" THEN pts
    ELSE Append(pts, Point(Len(pts), chunk, sparse, gc))

\* the body of the loop of save_chunks_to_database for a chunk with a
\* content: `continue` when the dense embedding is None, else one more point
points_after(pts, i, chunk, dense_embedding, sparse, gc) ==
    IF dense_embedding = "None" THEN pts
    ELSE Append(pts, Point(i, chunk, sparse, gc))

\* the calls the loop body makes after get_text_embedding returned a vector:
\* _get_sparse_embedding, then _has_sparse_support
save_calls(log, dense_embedding, sparse, gc) ==
    IF dense_embedding = "None" THEN log
    ELSE log \o <<Entry("sparse_embedding", sparse), Entry("get_collection", gc)>>



\* the ids of the points in the collection
PointIds == 1..MaxPoints

\* the lists of at most n distinct points the Index can answer a query with
PointLists(n) ==
    {ps \in UNION {[1..k -> PointIds] : k \in 0..MaxPoints} :
        /\ Len(ps) <= n
        /\ \A x, y \in 1..Len(ps) : ps[x] = ps[y] => x = y}

\* What a query of the Index can come to: the points, formatted; an exception
\* of the client; or points _format_search_results raises on.
QueryOutcomes(n) ==
    {[kind |-> "ok", points |-> ps] : ps \in PointLists(n)}
        \cup {[kind |-> "raises", points |-> <<>>], [kind |-> "unformattable", points |-> <<>>]}

\* what the collaborators of one search answer, for the calls that are made
SearchOutcomes(n) ==
    [get_collection : CollectionOutcomes,
     sparse_doc     : SparseOutcomes,
     fused          : QueryOutcomes(n),
     dense          : QueryOutcomes(n)]

\* a query as the log keeps it: its arguments and what came of it
QueryEntry(call, q, lim, prefetch) ==
    [call |-> call, outcome |-> q.kind, points |-> q.points, limit |-> lim,
     prefetch_sparse |-> prefetch, prefetch_dense |-> prefetch]

\* what a search returns
SearchResult(results, method) == [results |-> results, search_method |-> method]

\* _dense_search: qdrant_client.search with limit; "dense-only" with the
\* formatted points, or no results and "failed" on any exception
dense_search(o, lim, log) ==
    [log |-> Append(log, QueryEntry("search", o.dense, lim, 0)),
     out |-> IF o.dense.kind = "ok"
             THEN SearchResult(o.dense.points, "dense-only")
             ELSE SearchResult(<<>>, "failed")]

\* a prefetch that asks each arm for limit points only
PrefetchLimitOnly(lim) == lim

\* prefetch_limit = max(limit * 3, limit + 10)
prefetch_limit(lim) == IF lim * 3 >= lim + 10 THEN lim * 3 ELSE lim + 10

\* a hybrid search that labels the dense fallback "hybrid" as well
HybridLabelsFallback(o, lim, log) ==
    LET log1 == Append(log, Entry("sparse_embedding", o.sparse_doc))
        d    == dense_search(o, lim, log1)
    IN  [log |-> d.log, out |-> SearchResult(d.out.results, "hybrid")]

\* a hybrid search that runs the dense query too and returns both answers
HybridMixesQueries(o, lim, log) ==
    LET log1 == Append(log, Entry("sparse_embedding", o.sparse_doc))
        log2 == Append(log1, QueryEntry("query_points", o.fused, lim, prefetch_limit(lim)))
        d    == dense_search(o, lim, log2)
    IN  IF o.sparse_doc = "none" THEN dense_search(o, lim, log1)
        ELSE IF o.fused.kind = "ok"
             THEN [log |-> d.log,
                   out |-> SearchResult(o.fused.points \o d.out.results, "hybrid")]
             ELSE d

\* _hybrid_search: the sparse Document of the query, then query_points with
\* the two prefetches and the RRF fusion; _dense_search when the Document is
\* None or when anything in the fused query raises
hybrid_search(o, lim, log) ==
    LET log1 == Append(log, Entry("sparse_embedding", o.sparse_doc))
        log2 == Append(log1, QueryEntry("query_points", o.fused, lim, prefetch_limit(lim)))
    IN  IF o.sparse_doc = "none" THEN dense_search(o, lim, log1)
        ELSE IF o.fused.kind = "ok"
             THEN [log |-> log2, out |-> SearchResult(o.fused.points, "hybrid")]
             ELSE dense_search(o, lim, log2)

\* a search that asks the Index before it looks at the query embedding
SearchChecksIndexFirst(query_embedding, lim, o) ==
    LET log1 == <<Entry("get_collection", o.get_collection)>>
    IN  IF query_embedding = "None"
        THEN [log |-> log1, out |-> SearchResult(<<>>, "failed")]
        ELSE dense_search(o, lim, log1)

\* a search that takes the hybrid path whatever _has_sparse_support answers
SearchAlwaysHybrid(query_embedding, lim, o) ==
    IF query_embedding = "None"
    THEN [log |-> <<>>, out |-> SearchResult(<<>>, "failed")]
    ELSE hybrid_search(o, lim, <<Entry("get_collection", o.get_collection)>>)

\* search_similar_chunks after get_search_embedding returned: "failed" without
\* a call when there is no embedding, else _hybrid_search or _dense_search as
\* _has_sparse_support answers
search_similar_chunks(query_embedding, lim, o) ==
    LET log1 == <<Entry("get_collection", o.get_collection)>>
    IN  IF query_embedding = "None"
        THEN [log |-> <<>>, out |-> SearchResult(<<>>, "failed")]
        ELSE IF has_sparse_support(o.get_collection)
             THEN hybrid_search(o, lim, log1)
             ELSE dense_search(o, lim, log1)



\* ---------------------------------------------------------------------------
\* app.py: the handlers, step by step through the calls they make
\* ---------------------------------------------------------------------------

HandlerNames == {"chunk_text", "store_existing_chunks", "search_chunks"}

\* the handler moves on to position at
At(at) == [handler EXCEPT !.at = at]

\* process_large_text is not running
CtlIdle ==
    /\ pc = "idle"
    /\ text = <<>>
    /\ chunk_size = 1
    /\ remaining_text = <<>>
    /\ working_chunk = <<>>
    /\ all_chunks = <<>>
    /\ iteration = 1
    /\ semantic_result = NoResult
    /\ seg_kinds = {}
    /\ keep_output = TRUE

\* a request arrives at one of the handlers; the collection was created with
\* or without sparse vectors
InitApp ==
    /\ CtlIdle
    /\ handler \in [name : HandlerNames, at : {"start"}]
    /\ limit \in (IF handler.name = "search_chunks" THEN 1..MaxLimit ELSE {0})
    /\ sparse_vectors \in BOOLEAN
    /\ chunks = <<>>
    /\ adapter = NoCall
    /\ chunk_i = 0
    /\ points = <<>>
    /\ embedded = {}
    /\ index_log = <<>>
    /\ stored = <<>>
    /\ document_id = "none"
    /\ search_out = NoSearch
    /\ response = NoResponse

\* one attempt of the running adapter call: the body of its retry loop
AdapterAttempt ==
    /\ adapter.ret = "running"
    /\ adapter.attempt < max_retries
    /\ \E o \in AttemptOutcomes(adapter.fn) :
        LET r == attempt_result(adapter.fn, adapter.attempt, o)
        IN  adapter' = [adapter EXCEPT
                            !.outcomes = Append(@, o),
                            !.attempt  = IF r = "retry" THEN @ + 1 ELSE @,
                            !.ret      = IF r = "retry" THEN "running" ELSE r]
    /\ UNCHANGED <<ctlvars, handler, limit, chunks, chunk_i, points, embedded,
                   sparse_vectors, index_log, stored, document_id, search_out, response>>

\* chunk_text, word_count <= MAX_SAFE_GEMINI_WORDS: break_text_into_chunks is called
ChunkDirect ==
    /\ handler = [name |-> "chunk_text", at |-> "start"]
    /\ handler' = At("segmenter")
    /\ adapter' = StartCall("break_text_into_chunks")
    /\ UNCHANGED <<ctlvars, limit, chunks, chunk_i, points, embedded, sparse_vectors,
                   index_log, stored, document_id, search_out, response>>

\* chunk_text after break_text_into_chunks returned: the chunks go to
\* save_chunks_to_database; a result without "chunks" is answered as it is;
\* on a list or string with "chunks" in it parsed_result["chunks"] raises
\* TypeError and the except clause answers 500
ChunkParsed ==
    /\ handler = [name |-> "chunk_text", at |-> "segmenter"]
    /\ adapter.ret # "running"
    /\ IF adapter.ret = "chunks_json"
       THEN /\ \E cs \in SaveInputs : chunks' = cs
            /\ handler' = At("save")
            /\ UNCHANGED response
       ELSE /\ response' = IF adapter.ret = "member_json"
                           THEN [status |-> 500]
                           ELSE [status |-> 200, result |-> "error",
                                 document_id |-> "absent"]
            /\ handler' = At("responded")
            /\ UNCHANGED chunks
    /\ UNCHANGED <<ctlvars, limit, adapter, chunk_i, points, embedded, sparse_vectors,
                   index_log, stored, document_id, search_out>>

\* chunk_text, word_count > MAX_SAFE_GEMINI_WORDS: the chunks of
\* process_large_text go to save_chunks_to_database
ChunkDynamic ==
    /\ handler = [name |-> "chunk_text", at |-> "start"]
    /\ \E cs \in SaveInputs : chunks' = cs
    /\ handler' = At("save")
    /\ UNCHANGED <<ctlvars, limit, adapter, chunk_i, points, embedded, sparse_vectors,
                   index_log, stored, document_id, search_out, response>>

\* chunk_text after save_chunks_to_database returned: the result with the
\* document_id it was given, None included
ChunkRespond ==
    /\ handler = [name |-> "chunk_text", at |-> "saved"]
    /\ response' = [status |-> 200, result |-> "chunks", document_id |-> document_id]
    /\ handler' = At("responded")
    /\ UNCHANGED <<ctlvars, limit, chunks, adapter, chunk_i, points, embedded,
                   sparse_vectors, index_log, stored, document_id, search_out>>

\* store_existing_chunks, chunks_json is not JSON: 400
StoreInvalidJson ==
    /\ handler = [name |-> "store_existing_chunks", at |-> "start"]
    /\ response' = [status |-> 400]
    /\ handler' = At("responded")
    /\ UNCHANGED <<ctlvars, limit, chunks, adapter, chunk_i, points, embedded,
                   sparse_vectors, index_log, stored, document_id, search_out>>

\* store_existing_chunks, neither a list nor an object with "chunks": the
\* HTTPException(400) is caught by `except Exception` and raised again as 500
StoreInvalidFormat ==
    /\ handler = [name |-> "store_existing_chunks", at |-> "start"]
    /\ response' = [status |-> 500]
    /\ handler' = At("responded")
    /\ UNCHANGED <<ctlvars, limit, chunks, adapter, chunk_i, points, embedded,
                   sparse_vectors, index_log, stored, document_id, search_out>>

\* store_existing_chunks, the chunks are read and go to save_chunks_to_database
StoreParsed ==
    /\ handler = [name |-> "store_existing_chunks", at |-> "start"]
    /\ \E cs \in SaveInputs : chunks' = cs
    /\ handler' = At("save")
    /\ UNCHANGED <<ctlvars, limit, adapter, chunk_i, points, embedded, sparse_vectors,
                   index_log, stored, document_id, search_out, response>>

\* store_existing_chunks after save_chunks_to_database returned: the success
\* answer when there is a document_id, else 500
StoreRespond ==
    /\ handler = [name |-> "store_existing_chunks", at |-> "saved"]
    /\ response' = IF document_id # "None"
                   THEN [status |-> 200, success |-> TRUE, document_id |-> document_id,
                         chunks_stored |-> Len(chunks)]
                   ELSE [status |-> 500]
    /\ handler' = At("responded")
    /\ UNCHANGED <<ctlvars, limit, chunks, adapter, chunk_i, points, embedded,
                   sparse_vectors, index_log, stored, document_id, search_out>>



\* the handler stands in save_chunks_to_database, at the head of its loop
InSave == handler.name \in {"chunk_text", "store_existing_chunks"} /\ handler.at = "save"

\* save_chunks_to_database, a chunk without "content": chunk["content"]
\* raises, the except clause goes on to the next chunk
SaveChunkSkipped ==
    /\ InSave
    /\ chunk_i < Len(chunks)
    /\ ~HasContent(chunks[chunk_i + 1])
    /\ chunk_i' = chunk_i + 1
    /\ UNCHANGED <<ctlvars, handler, limit, chunks, adapter, points, embedded,
                   sparse_vectors, index_log, stored, document_id, search_out, response>>

\* save_chunks_to_database, a chunk with a content: get_text_embedding is called
SaveEmbedCall ==
    /\ InSave
    /\ chunk_i < Len(chunks)
    /\ HasContent(chunks[chunk_i + 1])
    /\ adapter' = StartCall("get_text_embedding")
    /\ handler' = At("embed")
    /\ UNCHANGED <<ctlvars, limit, chunks, chunk_i, points, embedded, sparse_vectors,
                   index_log, stored, document_id, search_out, response>>

\* save_chunks_to_database after get_text_embedding returned: the rest of the
\* loop body for this chunk
SaveAfterEmbed ==
    /\ handler.name \in {"chunk_text", "store_existing_chunks"}
    /\ handler.at = "embed"
    /\ adapter.ret # "running"
    /\ \E sparse \in SparseOutcomes, gc \in CollectionOutcomes :
        /\ points' = points_after(points, chunk_i, chunks[chunk_i + 1], adapter.ret, sparse, gc)
        /\ index_log' = save_calls(index_log, adapter.ret, sparse, gc)
    /\ embedded' = IF adapter.ret = "None" THEN embedded ELSE embedded \cup {chunk_i}
    /\ chunk_i' = chunk_i + 1
    /\ adapter' = NoCall
    /\ handler' = At("save")
    /\ UNCHANGED <<ctlvars, limit, chunks, sparse_vectors, stored, document_id,
                   search_out, response>>

\* save_chunks_to_database after the loop, with points: the upsert; the
\* document id when it succeeds, None when it raises
SaveUpsert ==
    /\ InSave
    /\ chunk_i = Len(chunks)
    /\ points # <<>>
    /\ \E o \in {"ok", "raises"} :
        /\ index_log' = Append(index_log, Entry("upsert", o))
        /\ stored' = IF o = "ok" THEN points ELSE stored
        /\ document_id' = IF o = "ok" THEN NewDocumentId ELSE "None"
    /\ handler' = At("saved")
    /\ UNCHANGED <<ctlvars, limit, chunks, adapter, chunk_i, points, embedded,
                   sparse_vectors, search_out, response>>

\* save_chunks_to_database after the loop, without points: None, no upsert
SaveNothing ==
    /\ InSave
    /\ chunk_i = Len(chunks)
    /\ points = <<>>
    /\ document_id' = "None"
    /\ handler' = At("saved")
    /\ UNCHANGED <<ctlvars, limit, chunks, adapter, chunk_i, points, embedded,
                   sparse_vectors, index_log, stored, search_out, response>>

\* search_chunks: search_similar_chunks calls get_search_embedding
SearchCall ==
    /\ handler = [name |-> "search_chunks", at |-> "start"]
    /\ adapter' = StartCall("get_search_embedding")
    /\ handler' = At("embed")
    /\ UNCHANGED <<ctlvars, limit, chunks, chunk_i, points, embedded, sparse_vectors,
                   index_log, stored, document_id, search_out, response>>

\* search_chunks after get_search_embedding returned: the rest of
\* search_similar_chunks, whose result is the answer
SearchReturn ==
    /\ handler = [name |-> "search_chunks", at |-> "embed"]
    /\ adapter.ret # "running"
    /\ \E o \in SearchOutcomes(limit) :
        LET r == search_similar_chunks(adapter.ret, limit, o)
        IN  /\ search_out' = r.out
            /\ index_log' = r.log
            /\ response' = [status |-> 200, body |-> r.out]
    /\ handler' = At("responded")
    /\ UNCHANGED <<ctlvars, limit, chunks, adapter, chunk_i, points, embedded,
                   sparse_vectors, stored, document_id>>

NextApp ==
    \/ AdapterAttempt
    \/ ChunkDirect
    \/ ChunkParsed
    \/ ChunkDynamic
    \/ ChunkRespond
    \/ StoreInvalidJson
    \/ StoreInvalidFormat
    \/ StoreParsed
    \/ StoreRespond
    \/ SaveChunkSkipped
    \/ SaveEmbedCall
    \/ SaveAfterEmbed
    \/ SaveUpsert
    \/ SaveNothing
    \/ SearchCall
    \/ SearchReturn

AppSpec == InitApp /\ [][NextApp]_vars



\* ---------------------------------------------------------------------------
\* Properties of the adapters, the search and the save
\* ---------------------------------------------------------------------------

\* the last of a non-empty sequence
Last(q) == q[Len(q)]

\* C12: in one call of break_text_into_chunks, get_text_embedding or
\* get_search_embedding a further attempt is made only after a timeout-class
\* failure, there are never more than max_retries (2) attempts, and a
\* non-timeout failure ends the call at that attempt with the error result.
C12_RetryPolicy ==
    adapter.fn # "none" =>
        /\ Len(adapter.outcomes) <= max_retries
        /\ \A k \in 1..(Len(adapter.outcomes) - 1) : is_timeout(adapter.outcomes[k])
        /\ (/\ adapter.outcomes # <<>>
            /\ ~is_timeout(Last(adapter.outcomes))
            /\ ~IsSuccess(Last(adapter.outcomes)))
           => adapter.ret = ErrorResult(adapter.fn)

\* a second attempt was made after a timeout and met a failure that is no timeout
C12_Witness ==
    /\ adapter.fn # "none"
    /\ Len(adapter.outcomes) = max_retries
    /\ is_timeout(adapter.outcomes[1])
    /\ ~is_timeout(Last(adapter.outcomes))
    /\ ~IsSuccess(Last(adapter.outcomes))
    /\ adapter.ret = ErrorResult(adapter.fn)

\* search_chunks has answered
Searched == handler = [name |-> "search_chunks", at |-> "responded"]

\* the calls of the log that went to the Index
IndexCalls == {"get_collection", "query_points", "search", "upsert"}

\* a call to the Index failed during the search
IndexFailure ==
    \E k \in 1..Len(index_log) :
        index_log[k].call \in IndexCalls /\ index_log[k].outcome # "ok"

\* the log holds a call of this name
Called(call) == \E k \in 1..Len(index_log) : index_log[k].call = call

\* the log holds a call of this name with this outcome
CalledWith(call, outcome) ==
    \E k \in 1..Len(index_log) :
        index_log[k].call = call /\ index_log[k].outcome = outcome

\* the search ended with the dense query and returned what it came to: its
\* points as "dense-only", or an empty list under another label than those
\* of a search that found something
EndedWithDenseQuery ==
    /\ index_log # <<>>
    /\ Last(index_log).call = "search"
    /\ IF Last(index_log).outcome = "ok"
       THEN search_out = SearchResult(Last(index_log).points, "dense-only")
       ELSE /\ search_out.results = <<>>
            /\ search_out.search_method \notin {"dense-only", "hybrid"}

\* C13: any failure at the Index boundary during a search (the sparse-support
\* check, the fused query or the dense query failing) yields an empty result
\* list with method "error", never a partial list and never another label.
C13_IndexFailureIsError ==
    (Searched /\ IndexFailure) => search_out = SearchResult(<<>>, "error")

\* the sparse-support check was made on a collection without sparse vectors
CheckedWithoutSparse == Searched /\ ~sparse_vectors /\ Called("get_collection")

\* C14 as stated: when the collection does not support sparse vectors the
\* search reports "dense-only" for every outcome of the remaining collaborator
\* calls, and the sparse embedding path is never invoked.
C14_AlwaysDenseOnly ==
    CheckedWithoutSparse =>
        /\ search_out.search_method = "dense-only"
        /\ ~Called("sparse_embedding")

\* C14, amended: when the collection does not support sparse vectors the
\* search runs the dense query only: it reports "dense-only" with the result
\* of that query when the query succeeds and an empty list without that label
\* when it fails; the sparse embedding path is never invoked.
C14_DenseOnlyOrEmpty ==
    CheckedWithoutSparse =>
        /\ EndedWithDenseQuery
        /\ ~Called("sparse_embedding")
        /\ ~Called("query_points")

\* a collection without sparse vectors answered the dense query with points
C14_Witness ==
    /\ CheckedWithoutSparse
    /\ search_out.search_method = "dense-only"
    /\ search_out.results # <<>>

\* C15: when get_search_embedding returns no embedding the search returns an
\* empty result list with method "failed" and no call to the Index is made.
C15_NoEmbeddingNoQuery ==
    (Searched /\ adapter.ret = "None") =>
        /\ search_out = SearchResult(<<>>, "failed")
        /\ index_log = <<>>

\* the query embedding timed out twice and the search has answered
C15_Witness ==
    /\ Searched
    /\ adapter.ret = "None"
    /\ adapter.outcomes = <<"Timeout", "Timeout">>



\* _has_sparse_support answered True during the search
SparseSupported == Searched /\ sparse_vectors /\ CalledWith("get_collection", "ok")

\* the sparse Document of the query was None, or the fused query did not succeed
HybridUnavailable ==
    \/ CalledWith("sparse_embedding", "none")
    \/ \E k \in 1..Len(index_log) :
        index_log[k].call = "query_points" /\ index_log[k].outcome # "ok"

\* C16: when the collection supports sparse vectors but the sparse
\* representation of the query is unavailable or the fused query fails, the
\* search falls back to the dense query and, if that succeeds, returns its
\* results with method "dense-only"; the method is "hybrid" only when the
\* fused query itself succeeded, and the results are then its results.
C16_HybridFallback ==
    /\ (SparseSupported /\ HybridUnavailable) =>
            /\ Last(index_log).call = "search"
            /\ Last(index_log).outcome = "ok"
                => search_out = SearchResult(Last(index_log).points, "dense-only")
    /\ (Searched /\ search_out.search_method = "hybrid") =>
            /\ Last(index_log).call = "query_points"
            /\ Last(index_log).outcome = "ok"
            /\ search_out.results = Last(index_log).points

\* the fused query failed and the dense query that followed found points
C16_Witness ==
    /\ SparseSupported
    /\ \E k \in 1..Len(index_log) :
        index_log[k].call = "query_points" /\ index_log[k].outcome = "raises"
    /\ search_out.search_method = "dense-only"
    /\ search_out.results # <<>>

\* the larger of two numbers
Max(x, y) == IF x >= y THEN x ELSE y

\* C18: in hybrid mode, for every limit >= 1, both arms of the fused query are
\* asked for max(limit * 3, limit + 10) candidates and the fused query itself
\* for exactly limit results.
C18_PrefetchLimits ==
    \A k \in 1..Len(index_log) :
        index_log[k].call = "query_points" =>
            /\ limit >= 1
            /\ index_log[k].prefetch_sparse = Max(limit * 3, limit + 10)
            /\ index_log[k].prefetch_dense = Max(limit * 3, limit + 10)
            /\ index_log[k].limit = limit

\* a fused query was made for a limit whose triple is the larger number
C18_Witness ==
    /\ Called("query_points")
    /\ limit * 3 > limit + 10

\* save_chunks_to_database has returned
Saved ==
    /\ handler.name \in {"chunk_text", "store_existing_chunks"}
    /\ handler.at \in {"saved", "responded"}
    /\ document_id # "none"

\* the chunk_index of the stored points
StoredIndexes == {stored[k].chunk_index : k \in 1..Len(stored)}

C20_UpsertFailureReported ==
    (handler.at = "responded" /\ CalledWith("upsert", "raises")) =>
        /\ document_id = "None"
        /\ response.status # 200



-----------------------------------------------------------------------------
(* process_large_text on documents of whole words: long enough for windows  *)
(* above and below every threshold, for refills and for sentences that      *)
(* exceed the refill floor; all_chunks is not recorded                      *)

\* what stands between two words of such a document
WordSeparators == {<<" ">>, <<".", " ">>, <<NL, NL>>}

RECURSIVE WordTexts(_)
\* the documents of 1..n words "a" with a separator between each two
WordTexts(n) ==
    IF n = 1 THEN {<<"a">>}
    ELSE LET S == WordTexts(n - 1)
         IN  S \cup {t \o sep \o <<"a">> : t \in S, sep \in WordSeparators}

LongDocs == WordTexts(MaxDocWords)

InitLong ==
    /\ pc = "outer"
    /\ text \in LongDocs
    /\ chunk_size \in 1..MaxLongChunkSize
    /\ remaining_text = text
    /\ working_chunk = <<>>
    /\ all_chunks = <<>>
    /\ iteration = 1
    /\ semantic_result = NoResult
    /\ seg_kinds = {}
    /\ keep_output = FALSE
    /\ SvcIdle

LongSpec == InitLong /\ [][Next]_vars



\* C21: a window of more than MAX_SAFE_GEMINI_WORDS words is split before the
\* Segmenter is called, whatever chunk_size was passed: no call of the
\* Segmenter receives more words than the ceiling.
C21_LargeWindowProtection ==
    AtSegmenter => working_words <= MAX_SAFE_GEMINI_WORDS



\* C22: whenever the Segmenter is called with a window of fewer than
\* MIN_CHUNK_REFILL_SIZE words, the document remainder is blank at that
\* moment: a window below the floor is first topped up from a non-blank remainder.
C22_RefillBeforeSegmenting ==
    (AtSegmenter /\ working_words < MIN_CHUNK_REFILL_SIZE)
        => IsBlank(RemainingPastRefill)



\* the step calls break_text_into_chunks with the window
SegmenterCall == SegError \/ SegEmpty \/ SegChunks \/ SegMalformed

C24_SmallDocumentFallback ==
    (/\ handler = [name |-> "chunk_text", at |-> "responded"]
     /\ adapter.fn = "break_text_into_chunks"
     /\ adapter.ret = ErrorResult("break_text_into_chunks"))
        => /\ response.result = "chunks"
           /\ chunks # <<>>



\* the k-th paragraph of the document
Paragraph(k) == SplitParagraphs(text)[k]

\* s ends w
IsSuffix(s, w) == Len(s) <= Len(w) /\ SubSeq(w, Len(w) - Len(s) + 1, Len(w)) = s

\* The scenario: three paragraphs, the first two together as long as the
\* target, the third at least the tiny threshold and below the refill floor
ScenarioShape ==
    /\ Len(SplitParagraphs(text)) = 3
    /\ count_words(Paragraph(1)) + count_words(Paragraph(2)) = chunk_size
    /\ count_words(Paragraph(3)) >= TINY_WORDS
    /\ count_words(Paragraph(3)) < MIN_CHUNK_REFILL_SIZE

\* the scenario with a target that is not below the refill floor, as 7000 and 3500
ScenarioAboveFloor == ScenarioShape /\ chunk_size >= MIN_CHUNK_REFILL_SIZE

\* the first window of the run is at the head of the inner loop
AtFirstWindow == pc = "inner" /\ iteration = 1 /\ semantic_result = NoResult

\* before every step: the first window is paragraphs 1 and 2 and goes to the
\* Segmenter unrefilled
FirstWindowWhole(scenario) ==
    (AtFirstWindow /\ scenario) =>
        /\ working_chunk = Paragraph(1) \o <<NL, NL>> \o Paragraph(2)
        /\ remaining_text = Paragraph(3)
        /\ AtSegmenter

\* paragraph 3 is not left behind when the run ends: the remainder is the
\* document, paragraph 3 or nothing, and nothing at the end
ThirdNotDropped(scenario) ==
    /\ (remaining_text \notin {text, <<>>} /\ scenario) => remaining_text = Paragraph(3)
    /\ (pc' = "done" /\ remaining_text' # <<>>) => ~scenario

\* when paragraph 3 leaves the remainder it is in the window, and that window
\* is one the Segmenter is called with; no tiny chunk is made of it
ThirdIntoWindow(scenario) ==
    /\ (remaining_text' # remaining_text /\ remaining_text # text
            /\ scenario /\ remaining_text = Paragraph(3))
         => /\ remaining_text' = <<>>
            /\ IsSuffix(Paragraph(3), working_chunk')
            /\ AtSegmenter'
    /\ (TinyChunk /\ scenario) => ~IsSuffix(Paragraph(3), working_chunk)

\* C25 as stated: for a document of three paragraphs whose first two together
\* equal the target and whose third is at least the tiny threshold but below
\* the refill floor, the first window is exactly paragraphs 1 and 2 and goes
\* to the Segmenter in one call without a refill; paragraph 3 is afterwards
\* placed into a window that goes to the Segmenter (or its fallback), and is
\* neither dropped nor emitted as a tiny chunk.
C25_Scenario ==
    [][/\ FirstWindowWhole(ScenarioShape)
       /\ ThirdNotDropped(ScenarioShape)
       /\ ThirdIntoWindow(ScenarioShape)]_vars

\* C25, amended: the same for every target that is at least the refill floor.
C25_ScenarioAboveFloor ==
    [][/\ FirstWindowWhole(ScenarioAboveFloor)
       /\ ThirdNotDropped(ScenarioAboveFloor)
       /\ ThirdIntoWindow(ScenarioAboveFloor)]_vars

\* paragraph 3 has been added by a refill to what the Segmenter left of the
\* first window, and the Segmenter is called with the two
C25_Witness ==
    /\ ScenarioAboveFloor
    /\ AtSegmenter
    /\ remaining_text = <<>>
    /\ iteration = 1
    /\ IsSuffix(<<NL, NL>> \o Paragraph(3), working_chunk)


RECURSIVE WordsUpTo(_, _)
\* the words of the first n texts of a sequence
WordsUpTo(q, n) == IF n = 0 THEN 0 ELSE WordsUpTo(q, n - 1) + count_words(q[n])

\* the first paragraph of the text that does not fit into the target any more
FirstOverflow(t, target) ==
    LET ps == SplitParagraphs(t)
    IN  CHOOSE k \in 1..Len(ps) :
            /\ WordsUpTo(ps, k) > target
            /\ \A j \in 1..(k - 1) : WordsUpTo(ps, j) <= target

\* the words accumulated when that paragraph is reached
Accumulated(t, target) == WordsUpTo(SplitParagraphs(t), FirstOverflow(t, target) - 1)

\* the number of leading sentences of that paragraph that still fit
FittingSentences(t, target) ==
    LET ss == SplitSentences(SplitParagraphs(t)[FirstOverflow(t, target)])
    IN  CHOOSE j \in 0..Len(ss) :
            /\ Accumulated(t, target) + WordsUpTo(ss, j) <= target
            /\ j < Len(ss) => Accumulated(t, target) + WordsUpTo(ss, j + 1) > target

\* the units the 80% rule puts into the prefix
RuleParts(t, target) ==
    LET ps == SplitParagraphs(t)
        k  == FirstOverflow(t, target)
        ss == SplitSentences(ps[k])
    IN  SubSeq(ps, 1, k - 1)
            \o (IF 5 * Accumulated(t, target) < 4 * target
                THEN SubSeq(ss, 1, FittingSentences(t, target))
                ELSE <<>>)

\* split_text_by_words has returned for a text above the target
SplitOverTarget == pc = "split_done" /\ count_words(text) > chunk_size

\* C26: when the first overflowing paragraph is reached with at least 80% of
\* the target accumulated, the prefix is made of the whole paragraphs before
\* it only; below 80%, the whole sentences of that paragraph are added
\* greedily until the next would overflow; nothing after the first
\* overflowing unit is added.
C26_EightyPercentRule ==
    SplitOverTarget =>
        working_chunk = Join(RuleParts(text, chunk_size), <<NL, NL>>)

\* a paragraph was taken whole and a sentence of the next one added to it
C26_Witness ==
    /\ SplitOverTarget
    /\ FirstOverflow(text, chunk_size) >= 2
    /\ Accumulated(text, chunk_size) >= 1
    /\ 5 * Accumulated(text, chunk_size) < 4 * chunk_size
    /\ FittingSentences(text, chunk_size) >= 1
    /\ count_words(SplitSentences(SplitParagraphs(text)[FirstOverflow(text, chunk_size)])[1]) >= 1



\* a step that moves a non-blank prefix of the remainder into the window:
\* the initial windowing of an iteration, or a refill (the only step of the
\* inner loop that makes the window longer)
MovesPrefix ==
    \/ pc = "outer" /\ pc' = "inner"
    \/ pc = "inner" /\ pc' = "inner" /\ Len(working_chunk') > Len(working_chunk)

\* C27: at every step of process_large_text the new remainder is a suffix of
\* the previous remainder, and it is strictly shorter at every step that
\* moves a non-blank prefix into the window (initial windowing or refill).
C27_RemainderShrinks ==
    [][ /\ IsSuffix(remaining_text', remaining_text)
        /\ MovesPrefix => Len(remaining_text') < Len(remaining_text) ]_vars

\* a window was cut and then refilled, and part of the document is still left
C27_Witness ==
    /\ pc = "inner"
    /\ count_words(working_chunk) > chunk_size
    /\ ~IsBlank(remaining_text)
    /\ Len(remaining_text) < Len(text)



C29_WindowSizeBound ==
    AtSegmenter => working_words <= Max(chunk_size, 2 * MIN_CHUNK_REFILL_SIZE - 1)

\* a refilled window of exactly 2 * MIN_CHUNK_REFILL_SIZE - 1 words, above the
\* target size, goes to the Segmenter
C29_Witness ==
    /\ AtSegmenter
    /\ working_words = 2 * MIN_CHUNK_REFILL_SIZE - 1
    /\ chunk_size < working_words



\* the calls of the log that are queries of the Index
QueryCalls == {"query_points", "search"}

\* the queries of the log that succeeded
SuccessfulQueries ==
    {k \in 1..Len(index_log) :
        index_log[k].call \in QueryCalls /\ index_log[k].outcome = "ok"}

\* the label a search gives to the answer of a query
MethodOf(call) == IF call = "query_points" THEN "hybrid" ELSE "dense-only"

\* C30: whatever the collaborators answer, search_similar_chunks returns a
\* method among hybrid, dense-only, failed and error; with failed or error
\* the result list is empty; a non-empty result list is the complete output
\* of one successful query of the Index, the only one that succeeded, under
\* the label of that query.
C30_SearchResultConsistency ==
    Searched =>
        /\ search_out.search_method \in {"hybrid", "dense-only", "failed", "error"}
        /\ search_out.search_method \in {"failed", "error"} => search_out.results = <<>>
        /\ search_out.results # <<>> =>
              /\ SuccessfulQueries = {Len(index_log)}
              /\ search_out.results = Last(index_log).points
              /\ search_out.search_method = MethodOf(Last(index_log).call)

\* two queries were made, the fused one failed, and the search returned the
\* points of the dense one
C30_Witness ==
    /\ Searched
    /\ search_out.results # <<>>
    /\ Called("query_points")
    /\ Called("search")
    /\ search_out.search_method = "dense-only"



\* C31: save_chunks_to_database returns the document id if and only if at
\* least one chunk obtained an embedding and the one upsert succeeded; when no
\* chunk embeds it returns None without calling upsert; every stored point
\* carries as chunk_index the position of its chunk in the input list, also
\* when earlier chunks were dropped.
C31_SaveOutcome ==
    Saved =>
        /\ document_id \in {NewDocumentId, "None"}
        /\ document_id = NewDocumentId <=> (embedded # {} /\ CalledWith("upsert", "ok"))
        /\ embedded = {} => (document_id = "None" /\ ~Called("upsert"))
        /\ Cardinality({k \in 1..Len(index_log) : index_log[k].call = "upsert"}) <= 1
        /\ \A k \in 1..Len(stored) :
            /\ stored[k].chunk_index \in embedded
            /\ stored[k].chunk_index + 1 \in 1..Len(chunks)
            /\ HasContent(chunks[stored[k].chunk_index + 1])
            /\ stored[k].content = chunks[stored[k].chunk_index + 1].content
            /\ \A j \in 1..(k - 1) : stored[j].chunk_index < stored[k].chunk_index

\* the first chunk of two was dropped and the second is stored under index 1,
\* with the document id returned
C31_Witness ==
    /\ Saved
    /\ document_id = NewDocumentId
    /\ Len(chunks) = 2
    /\ Len(stored) = 1
    /\ stored[1].chunk_index = 1
    /\ chunks[1] # chunks[2]



\* break_text_into_chunks has returned
SegmenterReturned == adapter.fn = "break_text_into_chunks" /\ adapter.ret # "running"

\* C32: whatever the attempts of the model call come to, break_text_into_chunks
\* returns within max_retries attempts a JSON text that holds a chunks key or
\* an error key.
C32_SegmenterTotality ==
    SegmenterReturned =>
        /\ Len(adapter.outcomes) <= max_retries
        /\ adapter.ret \in {"chunks_json", "error_json"}


====
